---- MODULE Spec2Model ----
(***************************************************************************)
(* A model of scripts/import_books.py: the CSV book loader (load_books),   *)
(* its two-tier insert (insert_batch), the error logger (log_error) and    *)
(* the entry point (main), run against a SQLAlchemy session whose          *)
(* statements the store may accept or reject; of the POST /review handler  *)
(* of app/routes.py, run by concurrent requests against the reviews table; *)
(* and of retrieve_book of app/services/google_books.py.                   *)
(***************************************************************************)
EXTENDS Integers, Sequences, FiniteSets, TLC

\* ------------------------------------------------------------------ bounds
\* The longest input file, in rows, and the largest batch_size a direct
\* caller of load_books passes.
MaxRows == 3
MaxBatch == 2
\* The requests the web server handles at once, and the users signed in.
MaxRequests == 2
MaxUsers == 2

\* ------------------------------------------------------- program constants
\* load_books' default batch_size, the one main() runs with.
DefaultBatchSize == 500
\* A data row needs at least this many fields.
MinColumns == 4

\* ----------------------------------------------------------------- strings
\* A string is a sequence of one-character strings.
IsSpace(c) == c \in {" ", "\t"}

LowerChar(c) ==
    CASE c = "I" -> "i"
      [] c = "S" -> "s"
      [] c = "B" -> "b"
      [] c = "N" -> "n"
      [] c = "T" -> "t"
      [] c = "A" -> "a"
      [] OTHER -> c

\* str.lower()
lower(s) == [i \in 1..Len(s) |-> LowerChar(s[i])]

RECURSIVE lstrip(_)
lstrip(s) == IF s # <<>> /\ IsSpace(Head(s)) THEN lstrip(Tail(s)) ELSE s

RECURSIVE rstrip(_)
rstrip(s) ==
    IF s # <<>> /\ IsSpace(s[Len(s)]) THEN rstrip(SubSeq(s, 1, Len(s) - 1)) ELSE s

\* str.strip()
strip(s) == rstrip(lstrip(s))

\* The literal "isbn" of the header test.
IsbnLiteral == <<"i", "s", "b", "n">>

\* -------------------------------------------------------------- input rows
\* The rows csv.reader may yield: an empty line, header rows (upper case, and
\* padded), a 4-field row, a padded 5-field row, a 3-field row.
EmptyRow == <<>>
HeaderRow == << <<"I", "S", "B", "N">>, <<"t">>, <<"a">>, <<"y">> >>
PaddedHeaderRow == << <<" ", "i", "s", "b", "n", " ">>, <<"t">>, <<"a">>, <<"y">> >>
BookRow == << <<"1">>, <<"T">>, <<"A">>, <<"7">> >>
WideRow == << <<" ", "2">>, <<"T", " ">>, <<"A">>, <<"8">>, <<"x">> >>
ShortRow == << <<"3">>, <<"T">>, <<"A">> >>

RowChoices == {EmptyRow, HeaderRow, PaddedHeaderRow, BookRow, WideRow, ShortRow}

\* `if not row: continue` and `row[0].strip().lower() == "isbn"`.
IsBlank(row) == row = <<>>
\* The header test without lower() (a faulty variant of IsHeader).
IsHeaderCaseSensitive(row) == strip(row[1]) = IsbnLiteral
\* The header test without the trim (a faulty variant of IsHeader).
IsHeaderUntrimmed(row) == lower(row[1]) = IsbnLiteral
IsHeader(row) == lower(strip(row[1])) = IsbnLiteral
TooShort(row) == Len(row) < MinColumns

\* The parameter dict built from the first four cells, each stripped.
Params(row) ==
    [isbn |-> strip(row[1]), title |-> strip(row[2]),
     author |-> strip(row[3]), year |-> strip(row[4])]

\* ----------------------------------------------------------------- the log
\* The log file is a sequence of tokens: messages, and the newline character.
Newline == [kind |-> "newline", row |-> 0, reason |-> ""]
OldMessage == [kind |-> "old", row |-> 0, reason |-> "earlier run"]
\* What the file holds before the run: one line of an earlier run.
OldLog == <<OldMessage, Newline>>

ShortMessage(i) == [kind |-> "row", row |-> i, reason |-> "not enough columns"]
\* The entry naming the row before (a faulty variant of RowMessage: rows counted from 0).
RowMessageOffByOne(i) == [kind |-> "row", row |-> i - 1, reason |-> "store error"]
RowMessage(i) == [kind |-> "row", row |-> i, reason |-> "store error"]
BatchMessage == [kind |-> "batch", row |-> 0, reason |-> "store error"]

\* What f.write() appends to the message: `message + ""`.
LogSuffix == <<>>
\* The file after log_error(message) has written.
Appended(l, message) == l \o <<message>> \o LogSuffix

\* --------------------------------------------------------------- the store
\* db.execute adds the statement's rows to the session's one open
\* transaction; db.rollback discards everything that transaction holds;
\* db.commit makes it durable.
AfterExecute(p, recs) == p \cup recs
AfterRollback(p) == {}
AfterCommit(c, p) == c \cup p

Records(params, lines) ==
    {[row |-> lines[k], params |-> params[k]] : k \in 1..Len(params)}

VARIABLES
    pc,            \* where the run is
    caller,        \* "main" or "direct" (load_books called by other code)
    csv_exists,    \* whether the CSV file is there
    batch_size,    \* load_books' batch_size
    rows,          \* the rows the reader has yielded so far
    batch_params,  \* the buffer of parameter dicts
    batch_rows,    \* their row numbers
    inserted, skipped, errors,           \* load_books' counts
    callsite,      \* which call of insert_batch is running: "loop" or "final"
    ib_inserted, ib_skipped, ib_errors,  \* insert_batch's counts
    ib_i,          \* the fallback loop's position in the batch
    pending,       \* the rows of the session's open transaction
    committed,     \* the rows the store holds durably
    log,           \* the error log file
    exc,           \* the exception that is propagating, or "none"
    removed,       \* how many times db.remove() ran
    summary,       \* what main printed, or <<>>
    execs,         \* history: every db.execute, with the store's verdict
    flushed,       \* history: the batch_rows of every insert_batch call
    logCalls,      \* history: the log_error calls that returned
    requests,      \* each POST /review request: where its handler stands
    reviews,       \* the committed rows of the reviews table, in order
    lookup         \* the retrieve_book call: its position, input and result

vars == <<pc, caller, csv_exists, batch_size, rows, batch_params, batch_rows,
          inserted, skipped, errors, callsite, ib_inserted, ib_skipped,
          ib_errors, ib_i, pending, committed, log, exc, removed, summary,
          execs, flushed, logCalls, requests, reviews, lookup>>

inputVars == <<caller, csv_exists, batch_size>>
countVars == <<inserted, skipped, errors>>
ibVars == <<ib_inserted, ib_skipped, ib_errors, ib_i>>
bufferVars == <<batch_params, batch_rows>>
storeVars == <<pending, committed, execs>>
logVars == <<log, logCalls>>
loaderVars == <<pc, caller, csv_exists, batch_size, rows, batch_params,
                batch_rows, inserted, skipped, errors, callsite, ib_inserted,
                ib_skipped, ib_errors, ib_i, pending, committed, log, exc,
                removed, summary, execs, flushed, logCalls>>
webVars == <<requests, reviews, lookup>>

row_index == Len(rows)

Init ==
    /\ caller \in {"main", "direct"}
    /\ csv_exists \in BOOLEAN
    /\ batch_size \in (IF caller = "main" THEN {DefaultBatchSize} ELSE 1..MaxBatch)
    /\ pc = (IF caller = "main" THEN "main" ELSE "load_books")
    /\ rows = <<>>
    /\ batch_params = <<>>
    /\ batch_rows = <<>>
    /\ inserted = 0 /\ skipped = 0 /\ errors = 0
    /\ callsite = "loop"
    /\ ib_inserted = 0 /\ ib_skipped = 0 /\ ib_errors = 0 /\ ib_i = 0
    /\ pending = {}
    /\ committed = {}
    /\ log = OldLog
    /\ exc = "none"
    /\ removed = 0
    /\ summary = <<>>
    /\ execs = <<>>
    /\ flushed = <<>>
    /\ logCalls = 0
    /\ requests = [r \in 1..MaxRequests |-> [pc |-> "new"]]
    /\ reviews = <<>>
    /\ lookup = [pc |-> "idle", isbn |-> <<>>, http |-> <<>>, outcome |-> <<>>,
                 result |-> <<>>]

\* log_error(error_log_path, message): the open or the write may fail, and
\* then nothing is written and OSError propagates to the caller.
log_error(message, ok) ==
    IF ok
    THEN /\ log' = Appended(log, message)
         /\ logCalls' = logCalls + 1
         /\ exc' = "none"
    ELSE /\ UNCHANGED logVars
         /\ exc' = "OSError"

\* main(), up to the call of load_books.
Main ==
    /\ pc = "main"
    /\ IF csv_exists
       THEN pc' = "load_books" /\ exc' = "none"
       ELSE pc' = "raised" /\ exc' = "FileNotFoundError"
    /\ UNCHANGED <<webVars, inputVars, rows, bufferVars, countVars, callsite, ibVars,
                   storeVars, logVars, removed, summary, flushed>>

\* A missing CSV file read as an empty one (a faulty variant of LoadBooks).
LoadBooksMissingAsEmpty ==
    /\ pc = "load_books"
    /\ pc' = "loop" /\ exc' = "none"
    /\ UNCHANGED <<webVars, inputVars, rows, bufferVars, countVars, callsite, ibVars,
                   storeVars, logVars, removed, summary, flushed>>

\* load_books, from its entry to the start of the loop: the session is made
\* (no statement runs yet) and the CSV file is opened.
LoadBooks ==
    /\ pc = "load_books"
    /\ IF csv_exists
       THEN pc' = "loop" /\ exc' = "none"
       ELSE pc' = "finally" /\ exc' = "FileNotFoundError"
    /\ UNCHANGED <<webVars, inputVars, rows, bufferVars, countVars, callsite, ibVars,
                   storeVars, logVars, removed, summary, flushed>>

\* The flush one row late (a faulty variant of BatchFull).
BatchFullStrict(n, size) == n > size

\* `len(batch_params) >= batch_size`: the buffer is flushed when it is full.
BatchFull(n, size) == n >= size

\* A short row counted as an error too (a faulty variant of ShortRowCounts).
ShortRowCountsAsError(skp, err) == <<skp + 1, err + 1>>

\* The counts after a row with too few columns: only skipped grows.
ShortRowCounts(skp, err) == <<skp + 1, err>>

\* One iteration of the loop over the reader, up to the call of insert_batch.
ReadRow(row, logOk) ==
    /\ pc = "loop"
    /\ row_index < MaxRows
    /\ rows' = Append(rows, row)
    /\ IF IsBlank(row) \/ IsHeader(row)
       THEN /\ pc' = "loop"
            /\ logOk
            /\ UNCHANGED <<bufferVars, skipped, errors, logVars, exc, callsite>>
       ELSE IF TooShort(row)
       THEN /\ skipped' = ShortRowCounts(skipped, errors)[1]
            /\ errors' = ShortRowCounts(skipped, errors)[2]
            /\ log_error(ShortMessage(row_index + 1), logOk)
            /\ pc' = (IF logOk THEN "loop" ELSE "finally")
            /\ UNCHANGED <<bufferVars, callsite>>
       ELSE /\ logOk
            /\ batch_params' = Append(batch_params, Params(row))
            /\ batch_rows' = Append(batch_rows, row_index + 1)
            /\ IF BatchFull(Len(batch_params'), batch_size)
               THEN pc' = "insert_batch" /\ callsite' = "loop"
               ELSE pc' = "loop" /\ UNCHANGED callsite
            /\ UNCHANGED <<skipped, errors, logVars, exc>>
    /\ UNCHANGED <<webVars, inputVars, inserted, ibVars, storeVars, removed, summary,
                   flushed>>

\* The reader is exhausted: the call of insert_batch that flushes the rest.
EndOfFile ==
    /\ pc = "loop"
    /\ pc' = "insert_batch"
    /\ callsite' = "final"
    /\ UNCHANGED <<webVars, inputVars, rows, bufferVars, countVars, ibVars, storeVars,
                   logVars, exc, removed, summary, flushed>>

\* insert_batch's counts when the multi-row insert succeeds.
FastPathCounts(n) == <<n, 0, 0>>

\* insert_batch, from its entry to the end of the fast path: the multi-row
\* insert, and on its failure the rollback and the batch-level log entry.
InsertBatch(accepted, logOk) ==
    /\ pc = "insert_batch"
    /\ flushed' = Append(flushed, batch_rows)
    /\ ib_i' = 1
    /\ IF batch_params = <<>>
       THEN /\ accepted /\ logOk
            /\ ib_inserted' = 0 /\ ib_skipped' = 0 /\ ib_errors' = 0
            /\ pc' = "ib_return"
            /\ UNCHANGED <<storeVars, logVars, exc>>
       ELSE /\ execs' = Append(execs, [kind |-> "batch", lines |-> batch_rows,
                                       ok |-> accepted])
            /\ UNCHANGED committed
            /\ IF accepted
               THEN /\ logOk
                    /\ pending' = AfterExecute(pending, Records(batch_params, batch_rows))
                    /\ ib_inserted' = FastPathCounts(Len(batch_params))[1]
                    /\ ib_skipped' = FastPathCounts(Len(batch_params))[2]
                    /\ ib_errors' = FastPathCounts(Len(batch_params))[3]
                    /\ pc' = "ib_return"
                    /\ UNCHANGED <<logVars, exc>>
               ELSE /\ pending' = AfterRollback(pending)
                    /\ ib_inserted' = 0 /\ ib_skipped' = 0 /\ ib_errors' = 0
                    /\ log_error(BatchMessage, logOk)
                    /\ pc' = (IF logOk THEN "fallback" ELSE "finally")
    /\ UNCHANGED <<webVars, inputVars, rows, bufferVars, countVars, callsite, removed,
                   summary>>

\* A rejected row discarding the batch's earlier credit (a faulty variant of FallbackCounts).
FallbackCountsDiscardBatch(ins, skp, err, accepted) ==
    IF accepted THEN <<ins + 1, skp, err>> ELSE <<0, skp + 1, err + 1>>

\* insert_batch's counts after one single-row insert of the fallback.
FallbackCounts(ins, skp, err, accepted) ==
    IF accepted THEN <<ins + 1, skp, err>> ELSE <<ins, skp + 1, err + 1>>

\* One iteration of the per-row fallback loop.
RowInsert(accepted, logOk) ==
    /\ pc = "fallback"
    /\ ib_i <= Len(batch_params)
    /\ execs' = Append(execs, [kind |-> "row", lines |-> <<batch_rows[ib_i]>>,
                               ok |-> accepted])
    /\ ib_i' = ib_i + 1
    /\ ib_inserted' = FallbackCounts(ib_inserted, ib_skipped, ib_errors, accepted)[1]
    /\ ib_skipped' = FallbackCounts(ib_inserted, ib_skipped, ib_errors, accepted)[2]
    /\ ib_errors' = FallbackCounts(ib_inserted, ib_skipped, ib_errors, accepted)[3]
    /\ IF accepted
       THEN /\ logOk
            /\ pending' = AfterExecute(pending,
                              {[row |-> batch_rows[ib_i], params |-> batch_params[ib_i]]})
            /\ pc' = (IF ib_i = Len(batch_params) THEN "ib_return" ELSE "fallback")
            /\ UNCHANGED <<logVars, exc>>
       ELSE /\ pending' = AfterRollback(pending)
            /\ log_error(RowMessage(batch_rows[ib_i]), logOk)
            /\ pc' = (IF ~logOk THEN "finally"
                      ELSE IF ib_i = Len(batch_params) THEN "ib_return"
                      ELSE "fallback")
    /\ UNCHANGED <<webVars, inputVars, rows, bufferVars, countVars, callsite, committed,
                   removed, summary, flushed>>

\* db.execute raises something `except Exception` does not catch (a
\* KeyboardInterrupt, a SystemExit): it escapes insert_batch and load_books.
ExecuteInterrupted ==
    /\ \/ pc = "insert_batch" /\ batch_params # <<>>
       \/ pc = "fallback"
    /\ flushed' = (IF pc = "insert_batch" THEN Append(flushed, batch_rows) ELSE flushed)
    /\ exc' = "KeyboardInterrupt"
    /\ pc' = "finally"
    /\ UNCHANGED <<webVars, inputVars, rows, bufferVars, countVars, callsite, ibVars,
                   storeVars, logVars, removed, summary>>

\* The store rejects the insert and db.rollback() raises in its turn: the
\* exception leaves the except clause before anything is counted or logged.
RollbackFails ==
    /\ \/ pc = "insert_batch" /\ batch_params # <<>>
       \/ pc = "fallback"
    /\ flushed' = (IF pc = "insert_batch" THEN Append(flushed, batch_rows) ELSE flushed)
    /\ execs' = Append(execs,
                  IF pc = "insert_batch"
                  THEN [kind |-> "batch", lines |-> batch_rows, ok |-> FALSE]
                  ELSE [kind |-> "row", lines |-> <<batch_rows[ib_i]>>, ok |-> FALSE])
    /\ exc' = "RollbackError"
    /\ pc' = "finally"
    /\ UNCHANGED <<webVars, inputVars, rows, bufferVars, countVars, callsite, ibVars,
                   pending, committed, logVars, removed, summary>>

\* insert_batch returns its counts; the caller adds them to its own. The call
\* in the loop then empties the buffer; the call after the loop does not.
InsertBatchReturn ==
    /\ pc = "ib_return"
    /\ inserted' = inserted + ib_inserted
    /\ skipped' = skipped + ib_skipped
    /\ errors' = errors + ib_errors
    /\ IF callsite = "loop"
       THEN /\ batch_params' = <<>>
            /\ batch_rows' = <<>>
            /\ pc' = "loop"
       ELSE /\ UNCHANGED bufferVars
            /\ pc' = "commit"
    /\ UNCHANGED <<webVars, inputVars, rows, callsite, ibVars, storeVars, logVars, exc,
                   removed, summary, flushed>>

\* db.commit(): the open transaction becomes durable, or the commit fails.
Commit(ok) ==
    /\ pc = "commit"
    /\ pc' = "finally"
    /\ IF ok
       THEN /\ committed' = AfterCommit(committed, pending)
            /\ pending' = {}
            /\ exc' = "none"
       ELSE /\ UNCHANGED <<pending, committed>>
            /\ exc' = "CommitError"
    /\ UNCHANGED <<webVars, inputVars, rows, bufferVars, countVars, callsite, ibVars,
                   execs, logVars, removed, summary, flushed>>

\* db.remove() only on the way out without an exception (a faulty variant of
\* Finally: the release after the try block instead of in its finally clause).
FinallyOnSuccessOnly ==
    /\ pc = "finally"
    /\ removed' = (IF exc = "none" THEN removed + 1 ELSE removed)
    /\ pending' = {}
    /\ pc' = (IF exc = "none" THEN "returned" ELSE "raised")
    /\ UNCHANGED <<webVars, inputVars, rows, bufferVars, countVars, callsite, ibVars,
                   committed, execs, logVars, exc, summary, flushed>>

\* The finally clause, db.remove(), and then the return or the re-raise.
\* Removing the session closes it: what its transaction still holds is gone.
Finally ==
    /\ pc = "finally"
    /\ removed' = removed + 1
    /\ pending' = {}
    /\ pc' = (IF exc = "none" THEN "returned" ELSE "raised")
    /\ UNCHANGED <<webVars, inputVars, rows, bufferVars, countVars, callsite, ibVars,
                   committed, execs, logVars, exc, summary, flushed>>

\* main() prints the summary of the counts load_books returned.
PrintSummary ==
    /\ pc = "returned"
    /\ caller = "main"
    /\ summary' = <<inserted, skipped, errors>>
    /\ pc' = "done"
    /\ UNCHANGED <<webVars, inputVars, rows, bufferVars, countVars, callsite, ibVars,
                   storeVars, logVars, exc, removed, flushed>>

Next ==
    \/ Main
    \/ LoadBooks
    \/ \E row \in RowChoices, logOk \in BOOLEAN : ReadRow(row, logOk)
    \/ EndOfFile
    \/ \E accepted \in BOOLEAN, logOk \in BOOLEAN : InsertBatch(accepted, logOk)
    \/ \E accepted \in BOOLEAN, logOk \in BOOLEAN : RowInsert(accepted, logOk)
    \/ ExecuteInterrupted
    \/ RollbackFails
    \/ InsertBatchReturn
    \/ \E ok \in BOOLEAN : Commit(ok)
    \/ Finally
    \/ PrintSummary

Spec == Init /\ [][Next]_vars

\* ------------------------------------------------------------ POST /review
\* The web application and the loader are separate programs: while requests
\* are served, the loader stands at its entry, not started.
WebInit == Init /\ caller = "main" /\ csv_exists

\* session.get("id"): <<>> for None, <<u>> for the signed-in user u.
SessionChoices == {<<>>} \cup {<<u>> : u \in 1..MaxUsers}
\* The form's isbn field as submitted.
IsbnFieldChoices == {<<>>, <<" ">>, <<"a">>, <<" ", "a", " ">>, <<"b">>}
TextFieldChoices == {<<>>, <<" ">>, <<"o", "k">>}
RatingFieldChoices == {<<>>, <<"5">>}

Responded(r, page) == requests' = [requests EXCEPT ![r] = [pc |-> "responded", page |-> page]]

\* review(), up to the first statement sent to the store: the session, the
\* three trimmed form fields and the pages for a missing one. found is
\* whether _build_book_context finds the book.
ReviewPost(r, user_id, form_isbn, form_review, form_rating, found) ==
    /\ requests[r].pc = "new"
    /\ LET isbn == strip(form_isbn)
           review == strip(form_review)
           rating == strip(form_rating)
       IN IF user_id = <<>>
          THEN Responded(r, "sign-in.html")
          ELSE IF isbn = <<>> \/ review = <<>> \/ rating = <<>>
          THEN IF isbn = <<>> \/ ~found
               THEN Responded(r, "search.html")
               ELSE Responded(r, "book-detail.html")
          ELSE requests' = [requests EXCEPT ![r] =
                   [pc |-> "select", id |-> user_id[1], isbn |-> isbn,
                    rating |-> rating, review |-> review]]
    /\ UNCHANGED <<loaderVars, reviews, lookup>>

\* SELECT review FROM reviews WHERE id = :id AND isbn = :isbn, fetchone():
\* the statement sees the rows committed so far.
ExistingReview(id, isbn) ==
    \E k \in 1..Len(reviews) : reviews[k].id = id /\ reviews[k].isbn = isbn

ReviewSelect(r, found) ==
    /\ requests[r].pc = "select"
    /\ IF ExistingReview(requests[r].id, requests[r].isbn)
       THEN Responded(r, IF found THEN "book-detail.html" ELSE "search.html")
       ELSE requests' = [requests EXCEPT ![r].pc = "insert"]
    /\ UNCHANGED <<loaderVars, reviews, lookup>>

\* INSERT INTO reviews (id, isbn, rating, review): the row joins the
\* request's own open transaction, where no other request sees it.
ReviewInsert(r) ==
    /\ requests[r].pc = "insert"
    /\ requests' = [requests EXCEPT ![r].pc = "commit"]
    /\ UNCHANGED <<loaderVars, reviews, lookup>>

\* db.commit() and the redirect.
ReviewCommit(r) ==
    /\ requests[r].pc = "commit"
    /\ reviews' = Append(reviews, [id |-> requests[r].id, isbn |-> requests[r].isbn,
                                   rating |-> requests[r].rating,
                                   review |-> requests[r].review])
    /\ Responded(r, "redirect")
    /\ UNCHANGED <<loaderVars, lookup>>

ReviewNext ==
    \/ \E r \in 1..MaxRequests, user_id \in SessionChoices,
          form_isbn \in IsbnFieldChoices, form_review \in TextFieldChoices,
          form_rating \in RatingFieldChoices, found \in BOOLEAN :
            ReviewPost(r, user_id, form_isbn, form_review, form_rating, found)
    \/ \E r \in 1..MaxRequests, found \in BOOLEAN : ReviewSelect(r, found)
    \/ \E r \in 1..MaxRequests : ReviewInsert(r)
    \/ \E r \in 1..MaxRequests : ReviewCommit(r)

ReviewSpec == WebInit /\ [][ReviewNext]_vars

\* ------------------------------------------------------------ retrieve_book
\* retrieve_book(isbn, BookQuery.JSON). The JSON string it returns is taken
\* as the object it serialises; the author and year members, which decide
\* nothing, are left out. A member that may be missing is <<>> when missing
\* and <<value>> when present.
Get(member, default) == IF member = <<>> THEN default ELSE member[1]

\* JSON values of the rating: null, a number (in tenths) or a string.
JNull == [type |-> "null", tenths |-> 0, text |-> ""]
JNum(type, tenths) == [type |-> type, tenths |-> tenths, text |-> ""]
JStr(text) == [type |-> "str", tenths |-> 0, text |-> text]
\* JSON values of the items member: null or a list.
JNullList == [type |-> "null", list |-> <<>>]
JList(list) == [type |-> "list", list |-> list]
float(j) == [j EXCEPT !.type = "float"]

IsbnChoices ==
    {<<"9", "7", "8", "0", "1", "3", "2", "3", "5", "0", "8", "8", "4">>,
     <<"9", "7", "8", "-", "0", "-", "1", "3", "-", "2", "3", "5", "0", "8", "8", "-", "4">>,
     <<"0", "8", "0", "4", "4", "2", "9", "5", "7", "X">>,
     <<"0", "-", "8", "0", "4", "4", "-", "2", "9", "5", "7", "-", "x">>,
     <<"1", "2", "3", "4", "5", " ", "6", "7", "8", "9", "0">>,
     <<"b", "a", "d", "-", "i", "s", "b", "n">>,
     <<>>,
     <<"9", "7", "8", "0", "1", "3", "2", "3", "5", "0", "8">>,
     <<"X", "8", "0", "4", "4", "2", "9", "5", "7", "0">>,
     <<"9", "7", "8", "0", "1", "3", "2", "3", "5", "0", "8", "8", "X">>}

isdigit(s) ==
    /\ s # <<>>
    /\ \A k \in 1..Len(s) : s[k] \in {"0", "1", "2", "3", "4", "5", "6", "7", "8", "9"}
replace(s, old) == SelectSeq(s, LAMBDA c : c # old)

normalize_isbn(isbn) == replace(replace(isbn, "-"), " ")

IsbnShape(normalized) ==
    IF Len(normalized) = 10
    THEN /\ isdigit(SubSeq(normalized, 1, 9))
         /\ \/ isdigit(<<normalized[10]>>)
            \/ normalized[10] \in {"x", "X"}
    ELSE IF Len(normalized) = 13
    THEN isdigit(normalized)
    ELSE FALSE

\* The validity test on the ISBN as given (a faulty variant of is_valid_isbn).
is_valid_isbn_raw(isbn) == IsbnShape(isbn)
is_valid_isbn(isbn) == IsbnShape(normalize_isbn(isbn))

fallback_response(isbn) ==
    [error |-> <<"Google Books API request failed">>, title |-> <<>>,
     isbn |-> isbn, average_rating |-> JStr("Unavailable"), review_count |-> 0]

\* What the metadata API may answer: volumeInfo objects, items lists, bodies
\* and whole outcomes of requests.get (an exception of requests, or a
\* response with a status and a JSON object).
VolumeInfoChoices ==
    [title : {<<>>, <<"Example">>},
     averageRating : {<<>>, <<JNull>>, <<JNum("int", 40)>>, <<JNum("float", 45)>>},
     ratingsCount : {<<>>, <<0>>, <<12>>}]
OtherVolume == [volumeInfo |-> <<[title |-> <<"Other">>, averageRating |-> <<>>,
                                  ratingsCount |-> <<7>>]>>]
ItemsChoices ==
    {<<>>, <<[volumeInfo |-> <<>>]>>}
        \cup {<<[volumeInfo |-> <<v>>]>> : v \in VolumeInfoChoices}
        \cup {<<[volumeInfo |-> <<v>>], OtherVolume>> :
                v \in {w \in VolumeInfoChoices : w.title # <<>> /\ w.ratingsCount = <<12>>}}
BodyChoices ==
    {[items |-> <<>>], [items |-> <<JNullList>>]}
        \cup {[items |-> <<JList(i)>>] : i \in ItemsChoices}
StatusChoices == {200, 404, 503}
OutcomeChoices ==
    {[raises |-> TRUE, status_code |-> 0, json |-> [items |-> <<>>]]}
        \cup {[raises |-> FALSE, status_code |-> c, json |-> b] :
                c \in StatusChoices, b \in BodyChoices}

Return(result) == lookup' = [lookup EXCEPT !.pc = "returned", !.result = <<result>>]

\* Lines 62-64: an invalid ISBN returns the fallback before any request.
RetrieveBook(isbn) ==
    /\ lookup.pc = "idle"
    /\ IF ~is_valid_isbn(isbn)
       THEN lookup' = [lookup EXCEPT !.pc = "returned", !.isbn = isbn,
                                     !.result = <<fallback_response(isbn)>>]
       ELSE lookup' = [lookup EXCEPT !.pc = "request", !.isbn = isbn]
    /\ UNCHANGED <<loaderVars, requests, reviews>>

\* Lines 67-78: the request for isbn:<normalized>, and the fallback when
\* requests raises.
HttpGet(outcome) ==
    /\ lookup.pc = "request"
    /\ IF outcome.raises
       THEN lookup' = [lookup EXCEPT !.pc = "returned",
                                     !.http = Append(@, normalize_isbn(lookup.isbn)),
                                     !.outcome = <<outcome>>,
                                     !.result = <<fallback_response(lookup.isbn)>>]
       ELSE lookup' = [lookup EXCEPT !.pc = "response",
                                     !.http = Append(@, normalize_isbn(lookup.isbn)),
                                     !.outcome = <<outcome>>]
    /\ UNCHANGED <<loaderVars, requests, reviews>>

\* book_data.get("items") or []
ItemsOf(book_data) ==
    IF Get(book_data.items, JNullList) = JNullList
    THEN <<>>
    ELSE book_data.items[1].list

BookInfo(isbn, volume_info) ==
    LET rating_raw == Get(volume_info.averageRating, JNull)
        rating == IF rating_raw # JNull THEN float(rating_raw) ELSE JNull
        review_count == Get(volume_info.ratingsCount, 0)
    IN [error |-> <<>>, title |-> <<Get(volume_info.title, "Unknown")>>,
        isbn |-> isbn, average_rating |-> rating, review_count |-> review_count]

EmptyVolumeInfo == [title |-> <<>>, averageRating |-> <<>>, ratingsCount |-> <<>>]

\* Lines 80-112: the status, the items and the first item's volumeInfo.
HandleResponse ==
    /\ lookup.pc = "response"
    /\ LET res == lookup.outcome[1]
           items == ItemsOf(res.json)
       IN IF res.status_code # 200
          THEN Return(fallback_response(lookup.isbn))
          ELSE IF items = <<>>
          THEN Return(fallback_response(lookup.isbn))
          ELSE Return(BookInfo(lookup.isbn, Get(items[1].volumeInfo, EmptyVolumeInfo)))
    /\ UNCHANGED <<loaderVars, requests, reviews>>

LookupNext ==
    \/ \E isbn \in IsbnChoices : RetrieveBook(isbn)
    \/ \E outcome \in OutcomeChoices : HttpGet(outcome)
    \/ HandleResponse

LookupSpec == WebInit /\ [][LookupNext]_vars

\* ------------------------------------------------- the run as a function
\* The counts load_books returns, as a function of the file, of the store's
\* answers to the successive db.execute calls (a sequence of verdicts; once
\* it is used up the store accepts) and of batch_size, for a run in which no
\* exception escapes.
Answer(v) == IF v = <<>> THEN TRUE ELSE Head(v)
Rest(v) == IF v = <<>> THEN <<>> ELSE Tail(v)
AddCounts(a, b) == <<a[1] + b[1], a[2] + b[2], a[3] + b[3]>>

\* The per-row fallback over the n records of a batch.
RECURSIVE FallbackRun(_, _, _)
FallbackRun(n, v, c) ==
    IF n = 0 THEN [counts |-> c, rest |-> v]
    ELSE FallbackRun(n - 1, Rest(v), FallbackCounts(c[1], c[2], c[3], Answer(v)))

\* insert_batch on a batch of n records.
BatchRun(n, v) ==
    IF n = 0 THEN [counts |-> <<0, 0, 0>>, rest |-> v]
    ELSE IF Answer(v) THEN [counts |-> FastPathCounts(n), rest |-> Rest(v)]
    ELSE FallbackRun(n, Rest(v), <<0, 0, 0>>)

\* The loop over the reader from row i on, with n records buffered and the
\* counts c so far, and the flush after the loop.
RECURSIVE LoopRun(_, _, _, _, _, _)
LoopRun(file, i, n, v, c, size) ==
    IF i > Len(file)
    THEN AddCounts(c, BatchRun(n, v).counts)
    ELSE IF IsBlank(file[i]) \/ IsHeader(file[i])
    THEN LoopRun(file, i + 1, n, v, c, size)
    ELSE IF TooShort(file[i])
    THEN LoopRun(file, i + 1, n, v,
                 <<c[1], ShortRowCounts(c[2], c[3])[1], ShortRowCounts(c[2], c[3])[2]>>,
                 size)
    ELSE IF BatchFull(n + 1, size)
    THEN LoopRun(file, i + 1, 0, BatchRun(n + 1, v).rest,
                 AddCounts(c, BatchRun(n + 1, v).counts), size)
    ELSE LoopRun(file, i + 1, n + 1, v, c, size)

RunCounts(file, v, size) == LoopRun(file, 1, 0, v, <<0, 0, 0>>, size)

\* ================================================================ properties
Returned == pc \in {"returned", "done"}

\* The store's verdicts on the single-row inserts of the batch in hand.
RejectedInBatch ==
    {k \in 1..Len(batch_rows) :
        \E j \in 1..Len(execs) : /\ execs[j].kind = "row"
                                 /\ execs[j].lines = <<batch_rows[k]>>
                                 /\ ~execs[j].ok}
AcceptedInBatch ==
    {k \in 1..Len(batch_rows) :
        \E j \in 1..Len(execs) : /\ execs[j].kind = "row"
                                 /\ execs[j].lines = <<batch_rows[k]>>
                                 /\ execs[j].ok}

\* A step in which the store rejects a single-row insert of the fallback (and
\* the log entry is written).
RowRejectedStep ==
    /\ pc = "fallback"
    /\ Len(execs') = Len(execs) + 1
    /\ ~execs'[Len(execs')].ok
    /\ exc' = "none"

\* C1: when a single-row insert of the fallback fails, only that record is
\* rolled back: every row that was pending in the session's transaction
\* before the failure is still pending after it.
C1_RowFailureKeepsEarlierRows == [][RowRejectedStep => pending \subseteq pending']_vars

\* C2: when insert_batch returns from a batch of B records of which the store
\* rejected exactly one single-row insert and accepted the other B-1, its
\* counts are inserted = B-1, skipped = 1, errors = 1.
C2_Isolation ==
    (/\ pc = "ib_return"
     /\ batch_rows # <<>>
     /\ Cardinality(RejectedInBatch) = 1
     /\ Cardinality(AcceptedInBatch) = Len(batch_rows) - 1)
    => <<ib_inserted, ib_skipped, ib_errors>> = <<Len(batch_rows) - 1, 1, 1>>

C2_Witness ==
    /\ pc = "ib_return"
    /\ Len(batch_rows) = 2
    /\ Cardinality(RejectedInBatch) = 1
    /\ Cardinality(AcceptedInBatch) = 1
    /\ <<ib_inserted, ib_skipped, ib_errors>> = <<1, 1, 1>>

\* The input rows that are neither empty nor a header row, with the header
\* test as the claim words it (case-insensitively "isbn") and as the loader
\* makes it (after trimming the field's whitespace).
DataRowsUntrimmed ==
    {i \in 1..Len(rows) : rows[i] # <<>> /\ lower(rows[i][1]) # IsbnLiteral}
DataRowsTrimmed ==
    {i \in 1..Len(rows) : rows[i] # <<>> /\ lower(strip(rows[i][1])) # IsbnLiteral}

\* C3 as claimed: when load_books returns, inserted + skipped is the number
\* of input rows that are neither empty nor have a first field equal to
\* "isbn" case-insensitively.
C3_ConservationUntrimmed ==
    Returned => inserted + skipped = Cardinality(DataRowsUntrimmed)

\* C3 as amended: when load_books returns, inserted + skipped is the number of
\* input rows that are neither empty nor have a first field that, trimmed of
\* whitespace, equals "isbn" case-insensitively.
C3_Conservation ==
    Returned => inserted + skipped = Cardinality(DataRowsTrimmed)

C3_Witness ==
    /\ Returned
    /\ \E i \in 1..Len(rows) : rows[i] = PaddedHeaderRow
    /\ inserted = 1
    /\ skipped = 1

\* C4: a full batch of N = batch_size rows that the store accepts, followed by
\* one row that the store rejects (as a batch of one, and again alone), ends
\* with counts inserted = N, skipped = 1, errors = 1 and with the N rows in
\* the store.
C4_BatchRollbackKeepsEarlierBatch ==
    (/\ Returned
     /\ \A i \in 1..Len(rows) : rows[i] = <<>> \/ ~TooShort(rows[i])
     /\ Len(execs) = 3
     /\ execs[1].kind = "batch" /\ execs[1].ok /\ Len(execs[1].lines) = batch_size
     /\ execs[2].kind = "batch" /\ ~execs[2].ok /\ Len(execs[2].lines) = 1
     /\ execs[3].kind = "row" /\ ~execs[3].ok)
    => /\ <<inserted, skipped, errors>> = <<batch_size, 1, 1>>
       /\ \A k \in 1..batch_size :
             \E r \in committed : r.row = execs[1].lines[k]

\* The rows with too few columns, and the rows whose single-row insert the
\* store rejected, by their numbers in the file.
ShortLines == {i \in DataRowsTrimmed : Len(rows[i]) < 4}
RejectedLines ==
    {execs[j].lines[1] : j \in {k \in 1..Len(execs) : execs[k].kind = "row" /\ ~execs[k].ok}}
ForwardedLines ==
    UNION {{flushed[k][j] : j \in 1..Len(flushed[k])} : k \in 1..Len(flushed)}
        \cup {batch_rows[j] : j \in 1..Len(batch_rows)}
        \cup UNION {{execs[k].lines[j] : j \in 1..Len(execs[k].lines)} : k \in 1..Len(execs)}
LogEntriesNaming(i) == {k \in 1..Len(log) : log[k].kind = "row" /\ log[k].row = i}

\* The file of the scenario: a header, a 4-field row, a 3-field row, with a
\* store that accepts what it is given.
ShortRowScenario ==
    /\ rows = <<HeaderRow, BookRow, ShortRow>>
    /\ \A j \in 1..Len(execs) : execs[j].ok

ShortRowsHandled ==
    /\ ShortLines \cap ForwardedLines = {}
    /\ \A i \in ShortLines :
          /\ Cardinality(LogEntriesNaming(i)) = 1
          /\ \E k \in 1..Len(log) : log[k] = ShortMessage(i)
    /\ skipped = Cardinality(ShortLines) + Cardinality(RejectedLines)

\* C5 as claimed: when load_books returns, no row with fewer than 4 fields
\* reached an insert, each has one "not enough columns" log entry naming its
\* line, and each is counted in skipped and in errors; the scenario's file
\* gives inserted = 1, skipped = 1, errors = 1.
C5_ShortRowCountedAsError ==
    Returned =>
        /\ ShortRowsHandled
        /\ errors = Cardinality(ShortLines) + Cardinality(RejectedLines)
        /\ ShortRowScenario => <<inserted, skipped, errors>> = <<1, 1, 1>>

\* C5 as amended: when load_books returns, no row with fewer than 4 fields
\* reached an insert, each has one "not enough columns" log entry naming its
\* line, and each is counted in skipped but not in errors (errors counts the
\* rejected single-row inserts only); the scenario's file gives inserted = 1,
\* skipped = 1, errors = 0.
C5_ShortRowSkipped ==
    Returned =>
        /\ ShortRowsHandled
        /\ errors = Cardinality(RejectedLines)
        /\ ShortRowScenario => <<inserted, skipped, errors>> = <<1, 1, 0>>

C5_Witness ==
    /\ Returned
    /\ ShortRowScenario
    /\ <<inserted, skipped, errors>> = <<1, 1, 0>>
    /\ \E k \in 1..Len(log) : log[k] = ShortMessage(3)

\* C6: while no exception is propagating, the log holds exactly one row entry
\* naming each skipped row (too few columns, or rejected in the fallback) and
\* no row entry naming any other row; batch-level entries name no row, one
\* per rejected multi-row insert; and the skipped count load_books returns is
\* the number of those rows.
C6_LoggingCompleteness ==
    exc = "none" =>
        /\ \A i \in 1..Len(rows) :
              Cardinality(LogEntriesNaming(i)) =
                  (IF i \in ShortLines \cup RejectedLines THEN 1 ELSE 0)
        /\ \A k \in 1..Len(log) :
              /\ log[k].kind = "row" => log[k].row \in ShortLines \cup RejectedLines
              /\ log[k].kind = "batch" => log[k].row = 0
        /\ Cardinality({k \in 1..Len(log) : log[k].kind = "batch"}) =
              Cardinality({j \in 1..Len(execs) : execs[j].kind = "batch" /\ ~execs[j].ok})
        /\ Returned => skipped = Cardinality(ShortLines \cup RejectedLines)

C6_Witness ==
    /\ Returned
    /\ ShortLines # {}
    /\ RejectedLines # {}
    /\ \E k \in 1..Len(log) : log[k].kind = "batch"

\* C7: the log only grows, by one newline-terminated line per log_error
\* call: the earlier content is a prefix, and after it come logCalls pairs
\* of one message and one newline.
C7_OneLinePerCall ==
    /\ Len(log) = Len(OldLog) + 2 * logCalls
    /\ SubSeq(log, 1, Len(OldLog)) = OldLog
    /\ \A k \in 1..logCalls :
          /\ log[Len(OldLog) + 2 * k - 1].kind \in {"row", "batch"}
          /\ log[Len(OldLog) + 2 * k] = Newline

\* C8: a failure of the logger's own I/O does not abort the load: load_books
\* never ends by raising the logger's OSError.
C8_LogFailureDoesNotAbort == pc = "raised" => exc # "OSError"

\* C9: when every execute so far has raised (the store is unreachable),
\* load_books does not return a summary, and unless an exception is on its
\* way to the caller no row has been counted as skipped or as an error by
\* insert_batch.
C9_UnreachableStoreRaises ==
    (execs # <<>> /\ \A j \in 1..Len(execs) : ~execs[j].ok)
        => /\ ~Returned
           /\ exc = "none" => ib_skipped = 0 /\ ib_errors = 0

\* The row numbers of the parsed records (not empty, not a header, at least 4
\* fields), in input order, and the flushed batches laid end to end.
RECURSIVE ParsedUpTo(_)
ParsedUpTo(n) ==
    IF n = 0 THEN <<>>
    ELSE IF n \in DataRowsTrimmed /\ Len(rows[n]) >= 4
         THEN Append(ParsedUpTo(n - 1), n)
         ELSE ParsedUpTo(n - 1)
ParsedLines == ParsedUpTo(Len(rows))

RECURSIVE Flatten(_)
Flatten(ss) == IF ss = <<>> THEN <<>> ELSE Head(ss) \o Flatten(Tail(ss))

BatchesInOrder ==
    /\ \A k \in 1..Len(flushed) : Len(flushed[k]) <= batch_size
    /\ Len(batch_params) = Len(batch_rows)
    /\ \A k \in 1..Len(batch_rows) : batch_params[k] = Params(rows[batch_rows[k]])
    /\ pc \in {"loop", "insert_batch"} => Flatten(flushed) \o batch_rows = ParsedLines
    /\ (pc \in {"fallback", "ib_return", "commit"} \/ Returned)
          => Flatten(flushed) = ParsedLines

\* C10 as claimed: every parsed record is passed to insert_batch in exactly
\* one batch, in input order, in batches of at most batch_size; the buffer is
\* empty after each flush, the last one included; and all are flushed before
\* the commit and the return.
C10_BufferEmptyAfterEveryFlush ==
    /\ BatchesInOrder
    /\ pc = "commit" => batch_params = <<>> /\ batch_rows = <<>>

\* C10 as amended: every parsed record is passed to insert_batch in exactly
\* one batch, in input order, in batches of at most batch_size; the buffer is
\* empty after each flush made inside the loop (what is still buffered in the
\* loop is exactly what has not been flushed); and all are flushed before the
\* commit and the return.
C10_BatchAccumulation ==
    /\ []BatchesInOrder
    /\ [][pc = "ib_return" /\ callsite = "loop"
            => batch_params' = <<>> /\ batch_rows' = <<>>]_vars

C10_Witness ==
    /\ Returned
    /\ batch_size = 2
    /\ flushed = << <<1, 2>>, <<3>> >>
    /\ batch_rows = <<3>>

\* load_books has been entered and left (main raises on a missing file
\* before it calls load_books).
LoadBooksExited ==
    \/ Returned
    \/ pc = "raised" /\ ~(caller = "main" /\ ~csv_exists)

\* C11: db.remove() has run exactly once when load_books has been left, by
\* its return or by any exception (missing file, an exception escaping an
\* insert, a rollback, a log write or the commit), and not before.
C11_SessionReleasedOnce ==
    /\ LoadBooksExited => removed = 1
    /\ ~LoadBooksExited => removed = 0

C11_Witness ==
    /\ pc = "raised"
    /\ exc = "RollbackError"
    /\ execs # <<>>
    /\ removed = 1

\* C12: when the source file does not exist, no statement is ever executed,
\* no transaction holds or commits anything, nothing is printed, and the run
\* can only end by raising FileNotFoundError.
C12_MissingFileRaisesFirst ==
    ~csv_exists =>
        /\ execs = <<>> /\ pending = {} /\ committed = {}
        /\ summary = <<>>
        /\ pc \in {"main", "load_books", "finally", "raised"}
        /\ pc \in {"finally", "raised"} => exc = "FileNotFoundError"

C12_Witness ==
    /\ ~csv_exists
    /\ caller = "main"
    /\ pc = "raised"
    /\ exc = "FileNotFoundError"
    /\ summary = <<>>

\* C16: when load_books returns, the number of book rows its commit made
\* durable is the inserted count it returns.
C16_CountsMatchStore == Returned => Cardinality(committed) = inserted

\* The store's answers in this run, in the order of the db.execute calls, and
\* the header rows of the file, by their numbers.
Verdicts == [k \in 1..Len(execs) |-> execs[k].ok]
HeaderLines ==
    {i \in 1..Len(rows) : rows[i] # <<>> /\ lower(strip(rows[i][1])) = IsbnLiteral}

\* C13: when load_books returns, the counts are those of the run as a
\* function of the file and the store's answers; the same file with a header
\* row put in front, under the same store answers, gives the same counts; and
\* no header row of the file was forwarded to an insert, counted in skipped
\* or named in the log.
C13_HeaderSkipIdempotent ==
    Returned =>
        /\ RunCounts(rows, Verdicts, batch_size) = <<inserted, skipped, errors>>
        /\ \A h \in {HeaderRow, PaddedHeaderRow} :
              RunCounts(<<h>> \o rows, Verdicts, batch_size) = <<inserted, skipped, errors>>
        /\ HeaderLines \cap ForwardedLines = {}
        /\ \A i \in HeaderLines : LogEntriesNaming(i) = {}
        /\ skipped = Cardinality((1..Len(rows)) \ HeaderLines)
                        - Cardinality({i \in 1..Len(rows) : rows[i] = <<>>})
                        - inserted

C13_Witness ==
    /\ Returned
    /\ rows = <<HeaderRow, BookRow, ShortRow>>
    /\ RunCounts(Tail(rows), Verdicts, batch_size) = <<inserted, skipped, errors>>
    /\ <<inserted, skipped, errors>> = <<1, 1, 0>>

\* C14: the reviews table never holds two rows for one (user id, isbn) pair,
\* so that a request for a pair that already has a review added nothing.
C14_OneReviewPerUserBook ==
    \A j, k \in 1..Len(reviews) :
        reviews[j].id = reviews[k].id /\ reviews[j].isbn = reviews[k].isbn => j = k

\* What the statement about retrieve_book reads off a call that returned.
IsFallback(payload) == payload.error \notin {<<>>, <<"">>} /\ payload.review_count = 0

RECURSIVE WithoutSeparators(_)
WithoutSeparators(t) ==
    IF t = <<>> THEN <<>>
    ELSE IF Head(t) \in {"-", " "} THEN WithoutSeparators(Tail(t))
    ELSE <<Head(t)>> \o WithoutSeparators(Tail(t))

Digits(t) == \A k \in 1..Len(t) : t[k] \in {"0", "1", "2", "3", "4", "5", "6", "7", "8", "9"}
TenOrThirteen(t) ==
    \/ Len(t) = 13 /\ Digits(t)
    \/ Len(t) = 10 /\ Digits(SubSeq(t, 1, 9)) /\ (Digits(<<t[10]>>) \/ t[10] \in {"x", "X"})

FirstVolumeInfo == lookup.outcome[1].json.items[1].list[1].volumeInfo

\* With valid saying whether the ISBN passed counts as valid: the call
\* returned the fallback exactly on an invalid ISBN, a raised request, a
\* status other than 200 or a body without items; an invalid ISBN sent no
\* request; and otherwise title, average_rating and review_count are the
\* first item's title, averageRating and ratingsCount.
LookupContract(valid) ==
    lookup.pc = "returned" =>
        LET payload == lookup.result[1]
            failed == \/ ~valid
                      \/ lookup.outcome = <<>>
                      \/ lookup.outcome[1].raises
                      \/ lookup.outcome[1].status_code # 200
                      \/ lookup.outcome[1].json.items \in {<<>>, <<JNullList>>, <<JList(<<>>)>>}
        IN /\ IsFallback(payload) <=> failed
           /\ ~valid => lookup.http = <<>>
           /\ valid => lookup.http = <<WithoutSeparators(lookup.isbn)>>
           /\ ~failed =>
                /\ FirstVolumeInfo # <<>> /\ FirstVolumeInfo[1].title # <<>>
                      => payload.title = FirstVolumeInfo[1].title
                /\ FirstVolumeInfo = <<>> \/ FirstVolumeInfo[1].title = <<>>
                      => payload.title = <<"Unknown">>
                /\ FirstVolumeInfo # <<>> /\ FirstVolumeInfo[1].averageRating \notin {<<>>, <<JNull>>}
                      => /\ payload.average_rating.type = "float"
                         /\ payload.average_rating.tenths = FirstVolumeInfo[1].averageRating[1].tenths
                /\ FirstVolumeInfo = <<>> \/ FirstVolumeInfo[1].averageRating \in {<<>>, <<JNull>>}
                      => payload.average_rating = JNull
                /\ FirstVolumeInfo # <<>> /\ FirstVolumeInfo[1].ratingsCount # <<>>
                      => payload.review_count = FirstVolumeInfo[1].ratingsCount[1]
                /\ FirstVolumeInfo = <<>> \/ FirstVolumeInfo[1].ratingsCount = <<>>
                      => payload.review_count = 0

====
